---------------------------- MODULE Spec2Model ----------------------------
(***************************************************************************)
(* lowres: conversion of a raster image into a resized or a pixelated PNG  *)
(* tagged with a DPI value.  Two near-duplicate implementations exist: the *)
(* CLI (src/app/lowres.rs, "cli") and the desktop-app command              *)
(* (src/src-tauri/src/lowres.rs, "app").                                   *)
(*                                                                         *)
(* Three specifications share the operators below:                         *)
(*   Spec         the orchestrator (run / process_image): load, transform, *)
(*                create the file, write the header, write the data;       *)
(*   SpecPixelate the two parallel stages of pixelate, one step per        *)
(*                rayon task (block average, pixel or row write);          *)
(*   SpecSize     pick_target_size applied to bounded inputs.              *)
(*                                                                         *)
(* Numbers.  TLC's integers are 32-bit signed, the program's are u32,      *)
(* usize (taken as 64-bit) and f64.  Quantities that can reach 2^31 are    *)
(* kept as little-endian sequences of base-2^15 limbs ("Big"); u32         *)
(* arithmetic wraps at 2^32 in a release build and panics in a build with  *)
(* overflow checks (the variable overflow_checks chooses the build).       *)
(***************************************************************************)
EXTENDS Naturals, Integers, Sequences, FiniteSets, TLC

----------------------------------------------------------------------------
(* Multi-limb naturals *)

Base == 32 * 1024

RECURSIVE ToBig(_)
ToBig(n) == IF n = 0 THEN <<>> ELSE <<n % Base>> \o ToBig(n \div Base)

RECURSIVE BigNorm(_)
BigNorm(a) ==
    IF a = <<>> THEN a
    ELSE IF a[Len(a)] = 0 THEN BigNorm(SubSeq(a, 1, Len(a) - 1)) ELSE a

RECURSIVE BigAddC(_, _, _)
BigAddC(a, b, c) ==
    IF a = <<>> /\ b = <<>> THEN (IF c = 0 THEN <<>> ELSE <<c>>)
    ELSE LET x == IF a = <<>> THEN 0 ELSE Head(a)
             y == IF b = <<>> THEN 0 ELSE Head(b)
             s == x + y + c
         IN  <<s % Base>> \o BigAddC(IF a = <<>> THEN a ELSE Tail(a),
                                     IF b = <<>> THEN b ELSE Tail(b),
                                     s \div Base)

BigAdd(a, b) == BigAddC(a, b, 0)

\* a - b for a >= b
RECURSIVE BigSubB(_, _, _)
BigSubB(a, b, br) ==
    IF a = <<>> THEN <<>>
    ELSE LET y == IF b = <<>> THEN 0 ELSE Head(b)
             d == Head(a) - y - br
         IN  <<IF d < 0 THEN d + Base ELSE d>>
             \o BigSubB(Tail(a), IF b = <<>> THEN b ELSE Tail(b),
                        IF d < 0 THEN 1 ELSE 0)

BigSub(a, b) == BigNorm(BigSubB(a, b, 0))

\* a * k + c for one limb k
RECURSIVE BigMulLimb(_, _, _)
BigMulLimb(a, k, c) ==
    IF a = <<>> THEN ToBig(c)
    ELSE LET p == Head(a) * k + c
         IN  <<p % Base>> \o BigMulLimb(Tail(a), k, p \div Base)

RECURSIVE BigMul(_, _)
BigMul(a, b) ==
    IF b = <<>> \/ a = <<>> THEN <<>>
    ELSE LET rest == BigMul(a, Tail(b))
         IN  BigNorm(BigAdd(BigMulLimb(a, Head(b), 0),
                            IF rest = <<>> THEN rest ELSE <<0>> \o rest))

RECURSIVE BigLessFrom(_, _, _)
BigLessFrom(a, b, i) ==
    IF i = 0 THEN FALSE
    ELSE IF a[i] # b[i] THEN a[i] < b[i] ELSE BigLessFrom(a, b, i - 1)

BigLess(a, b) ==
    IF Len(a) # Len(b) THEN Len(a) < Len(b) ELSE BigLessFrom(a, b, Len(a))

BigLeq(a, b) == ~BigLess(b, a)

\* the largest digit k < Base with k * d <= r, found bit by bit
RECURSIVE BigDigit(_, _, _, _)
BigDigit(r, d, k, bit) ==
    IF bit = 0 THEN k
    ELSE IF BigLeq(BigNorm(BigMulLimb(d, k + bit, 0)), r)
         THEN BigDigit(r, d, k + bit, bit \div 2)
         ELSE BigDigit(r, d, k, bit \div 2)

\* long division: <<quotient, remainder>> of a by d > 0, limbs of a from the top
RECURSIVE BigDivFrom(_, _, _, _, _)
BigDivFrom(a, d, i, q, r) ==
    IF i = 0 THEN <<BigNorm(q), r>>
    ELSE LET r1 == BigNorm(<<a[i]>> \o r)
             k  == BigDigit(r1, d, 0, Base \div 2)
         IN  BigDivFrom(a, d, i - 1, <<k>> \o q,
                        BigSub(r1, BigNorm(BigMulLimb(d, k, 0))))

BigDiv(a, d) == BigDivFrom(a, d, Len(a), <<>>, <<>>)[1]

RECURSIVE BigToInt(_)
BigToInt(a) == IF a = <<>> THEN 0 ELSE Head(a) + Base * BigToInt(Tail(a))

\* 2^32 = 4 * Base^2, and u32::MAX
Two32 == <<0, 0, 4>>
U32Max == <<Base - 1, Base - 1, 3>>

\* the low 32 bits of a
BigMod32(a) ==
    BigNorm(<<IF Len(a) >= 1 THEN a[1] ELSE 0,
              IF Len(a) >= 2 THEN a[2] ELSE 0,
              IF Len(a) >= 3 THEN a[3] % 4 ELSE 0>>)


Max(a, b) == IF a >= b THEN a ELSE b
Min(a, b) == IF a <= b THEN a ELSE b

----------------------------------------------------------------------------
(* State *)

VARIABLES
    impl,             \* "cli" (src/app) or "app" (src/src-tauri)
    overflow_checks,  \* TRUE: integer overflow panics; FALSE: it wraps
    img,              \* the decoded source image
    cfg,              \* Args / LowresConfig: width, height, mode, block
    dpi,              \* Args / LowresConfig: dpi, a u32 kept as a Big number
    pc,               \* position of run / process_image
    out,              \* the RGBA buffer handed to write_png_with_dpi
    summary,          \* the dimensions printed by the CLI summary line
    file,             \* the output file: what was handed to its writer, and
                      \* after the drop of the writer what reached the disk
    result,           \* what the caller gets back
    phys,             \* the pixel density written with the PNG header
    stage,            \* position of pixelate (SpecPixelate)
    block_colors,     \* Vec<Rgba<u8>> being collected
    pending,          \* the tasks of the running parallel stage not yet finished
    buffer,           \* the output bytes
    writers,          \* for each output byte, the tasks that wrote it, in order
    row_x,            \* app: the next x of each row task
    bad_access,       \* a read or an index outside its container happened
    size_out          \* the value returned by pick_target_size (SpecSize)

vars == <<impl, overflow_checks, img, cfg, dpi, pc, out, summary, file, result,
          phys,
          stage, block_colors, pending, buffer, writers, row_x, bad_access,
          size_out>>

inputs == <<impl, overflow_checks, img, cfg, dpi>>
orchestrator_vars == <<pc, out, summary, file, result, phys>>
pixelate_vars == <<stage, block_colors, pending, buffer, writers, row_x,
                   bad_access>>

Impls == {"cli", "app"}

\* Option<u32>: <<>> is None, <<n>> is Some(n)
None == <<>>
Some(n) == <<n>>
IsSome(o) == o # <<>>
Unwrap(o) == o[1]

----------------------------------------------------------------------------
(* f64 arithmetic on positive values: every operation gives the double    *)
(* nearest to the exact result (53-bit significand, ties to even)         *)

RECURSIVE Pow2(_)
Pow2(k) == IF k = 0 THEN 1 ELSE 2 * Pow2(k - 1)

\* 2^k as a Big number
BigPow2(k) == [i \in 1 .. (k \div 15) |-> 0] \o <<Pow2(k % 15)>>

\* the e with 2^e <= p / q < 2^(e+1), for p >= q, searched upward from e
RECURSIVE Log2Floor(_, _, _)
Log2Floor(p, q, e) ==
    IF BigLess(p, BigMul(q, BigPow2(e + 1))) THEN e
    ELSE Log2Floor(p, q, e + 1)

\* the least k with p * 2^k >= q, for 0 < p < q, searched upward from k
RECURSIVE Log2Below(_, _, _)
Log2Below(p, q, k) ==
    IF BigLeq(q, BigMul(p, BigPow2(k))) THEN k
    ELSE Log2Below(p, q, k + 1)

\* t or t + 1: the 53-bit significand rounded to nearest, ties to even
RoundTiesEven(t, rem, q) ==
    LET twice == BigNorm(BigMulLimb(rem, 2, 0))
    IN  IF BigLess(q, twice) \/ (twice = q /\ t[1] % 2 = 1)
        THEN BigAdd(t, ToBig(1)) ELSE t

\* the double nearest to p / q (q > 0), as a fraction num / den
F64Nearest(p, q) ==
    IF p = <<>> THEN [kind |-> "fin", num |-> <<>>, den |-> ToBig(1)]
    ELSE IF BigLeq(q, p)
    THEN LET e == Log2Floor(p, q, 0)
         IN  IF e <= 52
             THEN LET scaled == BigMul(p, BigPow2(52 - e))
                      t      == BigDiv(scaled, q)
                      rem    == BigSub(scaled, BigMul(t, q))
                  IN  [kind |-> "fin", num |-> RoundTiesEven(t, rem, q),
                       den |-> BigPow2(52 - e)]
             ELSE LET unit == BigMul(q, BigPow2(e - 52))
                      t    == BigDiv(p, unit)
                      rem  == BigSub(p, BigMul(t, unit))
                  IN  [kind |-> "fin",
                       num |-> BigMul(RoundTiesEven(t, rem, unit),
                                      BigPow2(e - 52)),
                       den |-> ToBig(1)]
    ELSE LET k      == Log2Below(p, q, 1)
             scaled == BigMul(p, BigPow2(52 + k))
             t      == BigDiv(scaled, q)
             rem    == BigSub(scaled, BigMul(t, q))
         IN  [kind |-> "fin", num |-> RoundTiesEven(t, rem, q),
              den |-> BigPow2(52 + k)]

----------------------------------------------------------------------------
(* pick_target_size *)

\* (a as f64) * (b as f64) / (c as f64): the u32 values convert exactly,
\* the product is rounded to a double and so is the quotient; a zero divisor
\* gives +inf, or NaN for 0.0 / 0.0
F64MulDiv(a, b, c) ==
    LET p == F64Nearest(BigMul(ToBig(a), ToBig(b)), ToBig(1))
    IN  IF c = 0 THEN [kind |-> IF p.num = <<>> THEN "nan" ELSE "inf"]
        ELSE F64Nearest(p.num, BigMul(p.den, ToBig(c)))

\* a rounding that truncates instead
F64RoundTrunc(v) ==
    IF v.kind # "fin" THEN v
    ELSE [kind |-> "fin", num |-> BigDiv(v.num, v.den), den |-> ToBig(1)]

\* f64::round: to the nearest integer, halves away from zero
F64Round(v) ==
    IF v.kind # "fin" THEN v
    ELSE [kind |-> "fin",
          num  |-> BigDiv(BigAdd(BigMulLimb(v.num, 2, 0), v.den),
                          BigMulLimb(v.den, 2, 0)),
          den  |-> ToBig(1)]

\* f64::max(1.0) of an integral value: NaN.max(1.0) is 1.0
F64Max1(v) ==
    IF v.kind = "nan" \/ (v.kind = "fin" /\ v.num = <<>>)
    THEN [kind |-> "fin", num |-> ToBig(1), den |-> ToBig(1)]
    ELSE v

\* `as u32` of an integral f64: saturates, NaN becomes 0
F64AsU32(v) ==
    IF v.kind = "nan" THEN <<>>
    ELSE IF v.kind = "inf" THEN U32Max
    ELSE IF BigLess(U32Max, v.num) THEN U32Max ELSE v.num

\* ((a as f64) * (b as f64) / (c as f64)).round().max(1.0) as u32
AspectDim(a, b, c) == F64AsU32(F64Max1(F64Round(F64MulDiv(a, b, c))))

DefaultSize == 64

PickBoth(w, h, w0, h0) == [ok |-> TRUE, w |-> ToBig(w), h |-> ToBig(h)]

\* the match of pick_target_size; the returned pair is kept as Big numbers
PickTargetSize(w0, h0, width, height, mode) ==
    IF IsSome(width) /\ IsSome(height) /\ mode = "Exact"
        THEN PickBoth(Unwrap(width), Unwrap(height), w0, h0)
    ELSE IF IsSome(width) /\ IsSome(height) /\ mode = "Auto"
        THEN PickBoth(Unwrap(width), Unwrap(height), w0, h0)
    ELSE IF IsSome(width)
        THEN [ok |-> TRUE, w |-> ToBig(Unwrap(width)),
              h |-> AspectDim(h0, Unwrap(width), w0)]
    ELSE IF IsSome(height)
        THEN [ok |-> TRUE, w |-> AspectDim(w0, Unwrap(height), h0),
              h |-> ToBig(Unwrap(height))]
    ELSE [ok |-> TRUE, w |-> ToBig(DefaultSize), h |-> ToBig(DefaultSize)]

----------------------------------------------------------------------------
(* dpi_to_ppm *)

\* --dpi, default_value_t = 300 (cli); config.dpi.unwrap_or(300) (app)
DefaultDpi == 300

\* the f64 literal 0.0254: the double nearest to 0.0254 is
\* 7321051554253478 / 2^58
MetersPerInch ==
    [kind |-> "fin", num |-> <<2726, 19084, 2516, 208>>, den |-> BigPow2(58)]

\* (a as f64) / d for a u32 a and a finite d in (0, 1): the quotient of the
\* two doubles, rounded to a double (53-bit significand, ties to even)
F64Div(a, d) ==
    IF a = <<>> THEN [kind |-> "fin", num |-> <<>>, den |-> ToBig(1)]
    ELSE LET p      == BigMul(a, d.den)
             q      == d.num
             e      == Log2Floor(p, q, 0)
             scaled == BigMul(p, BigPow2(52 - e))
             t      == BigDiv(scaled, q)
             rem    == BigSub(scaled, BigMul(t, q))
         IN  [kind |-> "fin", num |-> RoundTiesEven(t, rem, q),
              den |-> BigPow2(52 - e)]

\* a conversion that drops the fraction instead of rounding
DpiToPpmTruncating(d) == F64AsU32(F64RoundTrunc(F64Div(d, MetersPerInch)))

\* ((dpi as f64) / 0.0254).round() as u32
DpiToPpm(d) == F64AsU32(F64Round(F64Div(d, MetersPerInch)))

\* encoder.set_pixel_dims(Some(PixelDimensions { xppu: ppm, yppu: ppm,
\* unit: Unit::Meter }))
PixelDims(d) ==
    LET ppm == DpiToPpm(d)
    IN  [xppu |-> ppm, yppu |-> ppm, unit |-> "Meter"]

----------------------------------------------------------------------------
(* Images *)

\* An RGBA8 image is given by its size and a rule for its pixels: one colour
\* everywhere ("uniform"), or a colour that changes with x and y ("ramp").
Pixel(image, x, y) ==
    IF image.pat = "uniform" THEN image.c
    ELSE <<(image.c[1] + 50 * x + 70 * y) % 256,
           (image.c[2] + 90 * x + 31 * y) % 256,
           (image.c[3] + 11 * x + 110 * y) % 256,
           (image.c[4] + 128 * x + 65 * y) % 256>>

----------------------------------------------------------------------------
(* pixelate: block averaging *)

\* let b = block.max(1) as usize
BlockSide(block) == Max(block, 1)

\* (w as usize + b - 1) / b, in 64-bit usize
Blocks(n, b) == (n + b - 1) \div b

\* x_end = (x_start + b).min(w); an end that is not clamped
BlockEndUnclamped(start, b, n) == start + b

BlockEnd(start, b, n) == Min(start + b, n)

\* u32 addition: the low 32 bits, and whether the sum left the u32 range
AddU32(x, y) ==
    LET s == BigAdd(x, ToBig(y))
    IN  [v |-> BigMod32(s), ovf |-> ~BigLess(s, Two32)]

ZeroSums ==
    [r |-> <<>>, g |-> <<>>, b |-> <<>>, a |-> <<>>, count |-> <<>>,
     ovf |-> FALSE, oob |-> FALSE]

\* r_sum += pixel[0] as u32; ...; count += 1
Accumulate(acc, px) ==
    LET r == AddU32(acc.r, px[1])
        g == AddU32(acc.g, px[2])
        b == AddU32(acc.b, px[3])
        a == AddU32(acc.a, px[4])
        n == AddU32(acc.count, 1)
    IN  [r |-> r.v, g |-> g.v, b |-> b.v, a |-> a.v, count |-> n.v,
         ovf |-> r.ovf \/ g.ovf \/ b.ovf \/ a.ovf \/ n.ovf, oob |-> FALSE]

\* for y in y_start..y_end { for x in x_start..x_end { ... } }, from (x, y) on.
\* get_pixel panics outside the image; with overflow checks the first
\* overflowing addition panics.
RECURSIVE SumLoop(_, _, _, _, _, _, _, _)
SumLoop(checks, image, x_start, x_end, y_end, x, y, acc) ==
    IF acc.oob \/ (acc.ovf /\ checks) THEN acc
    ELSE IF y >= y_end \/ x_start >= x_end THEN acc
    ELSE IF x >= image.w \/ y >= image.h THEN [acc EXCEPT !.oob = TRUE]
    ELSE SumLoop(checks, image, x_start, x_end, y_end,
                 IF x + 1 < x_end THEN x + 1 ELSE x_start,
                 IF x + 1 < x_end THEN y ELSE y + 1,
                 Accumulate(acc, Pixel(image, x, y)))

\* the same sums for n pixels of one colour c: n * c in each channel
UniformSums(c, n) ==
    LET r == BigMul(ToBig(n), ToBig(c[1]))
        g == BigMul(ToBig(n), ToBig(c[2]))
        b == BigMul(ToBig(n), ToBig(c[3]))
        a == BigMul(ToBig(n), ToBig(c[4]))
    IN  [r |-> BigMod32(r), g |-> BigMod32(g), b |-> BigMod32(b),
         a |-> BigMod32(a), count |-> ToBig(n),
         ovf |-> \E s \in {r, g, b, a} : ~BigLess(s, Two32), oob |-> FALSE]

\* blocks of at most LoopMax pixels are summed pixel by pixel
LoopMax == 64

BlockSums(checks, image, x_start, x_end, y_start, y_end) ==
    LET n == Max(x_end - x_start, 0) * Max(y_end - y_start, 0)
    IN  IF n <= LoopMax \/ image.pat # "uniform"
            \/ x_end > image.w \/ y_end > image.h
        THEN SumLoop(checks, image, x_start, x_end, y_end, x_start, y_start,
                     ZeroSums)
        ELSE UniformSums(image.c, n)

\* (r_sum / count) as u8
QuotU8(sum, count) == BigToInt(BigDiv(sum, count)) % 256

\* the closure of the parallel map: the colour of block idx, or a panic
AverageBlock(checks, image, b, blocks_x, idx) ==
    LET block_y == idx \div blocks_x
        block_x == idx % blocks_x
        x_start == block_x * b
        y_start == block_y * b
        x_end   == BlockEnd(x_start, b, image.w)
        y_end   == BlockEnd(y_start, b, image.h)
        sums    == BlockSums(checks, image, x_start, x_end, y_start, y_end)
    IN  IF sums.oob \/ (sums.ovf /\ checks)
        THEN [panic |-> TRUE, oob |-> sums.oob, color |-> <<>>]
        ELSE IF sums.count # <<>>
        THEN [panic |-> FALSE, oob |-> FALSE,
              color |-> <<QuotU8(sums.r, sums.count), QuotU8(sums.g, sums.count),
                          QuotU8(sums.b, sums.count), QuotU8(sums.a, sums.count)>>]
        ELSE [panic |-> FALSE, oob |-> FALSE, color |-> <<0, 0, 0, 255>>]

\* block_colors = (0..blocks_y * blocks_x).into_par_iter().map(..).collect()
BlockTable(checks, image, b, blocks_x, blocks_y) ==
    [i \in 1 .. blocks_x * blocks_y |->
        AverageBlock(checks, image, b, blocks_x, i - 1)]

----------------------------------------------------------------------------
(* pixelate: reconstruction *)

\* block_y * blocks_x + block_x for output pixel (x, y)
BlockIndex(x, y, b, blocks_x) == (y \div b) * blocks_x + (x \div b)

\* app: vec![0u8; (w * h * 4) as usize], the product taken in u32
BufferLen(w, h) ==
    LET p == BigMulLimb(BigMul(ToBig(w), ToBig(h)), 4, 0)
    IN  [len |-> BigMod32(p), ovf |-> ~BigLess(p, Two32)]

\* app: par_chunks_exact_mut((w * 4) as usize), the product taken in u32
ChunkSize(w) == BigMod32(BigMulLimb(ToBig(w), 4, 0))

\* app: the u32 product w * 4 does not fit
ChunkOverflows(w) == ~BigLess(BigMulLimb(ToBig(w), 4, 0), Two32)

\* a row stride that forgets the four channels
WriteOffsetNarrow(x, y, w) == y * w + x * 4

\* the first byte of output pixel (x, y): row y starts at y * (w * 4)
WriteOffset(x, y, w) == y * (w * 4) + x * 4

\* pixelate as a function of its arguments: a panic, an error, or the image
\* whose pixel (x, y) is colors[BlockIndex(x, y) + 1]
Pixelate(im, checks, image, block) ==
    LET b         == BlockSide(block)
        blocks_x  == Blocks(image.w, b)
        blocks_y  == Blocks(image.h, b)
        table     == BlockTable(checks, image, b, blocks_x, blocks_y)
        len       == BufferLen(image.w, image.h)
        chunk     == ChunkSize(image.w)
        chunk_ovf == ChunkOverflows(image.w)
    IN  IF \E i \in DOMAIN table : table[i].panic THEN [kind |-> "panic"]
        \* app: w * h * 4 or w * 4 overflows in a build with overflow checks
        ELSE IF im = "app" /\ checks /\ (len.ovf \/ chunk_ovf)
        THEN [kind |-> "panic"]
        \* app: par_chunks_exact_mut(0) panics
        ELSE IF im = "app" /\ chunk = <<>> THEN [kind |-> "panic"]
        \* app: a wrapped chunk is shorter than a row of w pixels, and the
        \* first row task indexes past its end
        ELSE IF im = "app" /\ chunk_ovf /\ BigLeq(chunk, len.len)
        THEN [kind |-> "panic"]
        \* app: from_raw refuses a buffer shorter than w * h * 4
        ELSE IF im = "app" /\ len.ovf THEN [kind |-> "err"]
        ELSE [kind |-> "image", w |-> image.w, h |-> image.h, b |-> b,
              blocks_x |-> blocks_x,
              colors |-> [i \in DOMAIN table |-> table[i].color]]

OutPixel(o, x, y) == o.colors[BlockIndex(x, y, o.b, o.blocks_x) + 1]

----------------------------------------------------------------------------
(* Values of the variables a specification does not use *)

NoImage == [w |-> 0, h |-> 0]
NoPhys == [xppu |-> <<>>, yppu |-> <<>>, unit |-> "none"]
NoSize == [called |-> FALSE, ok |-> FALSE, w |-> <<>>, h |-> <<>>]

OrchestratorIdle ==
    /\ pc = "idle"
    /\ out = [kind |-> "none"]
    /\ summary = [final |-> <<>>, printed |-> FALSE]
    /\ file = "absent"
    /\ result = "none"
    /\ phys = NoPhys

PixelateIdle ==
    /\ stage = "idle"
    /\ block_colors = <<>>
    /\ pending = {}
    /\ buffer = <<>>
    /\ writers = <<>>
    /\ row_x = <<>>
    /\ bad_access = FALSE

----------------------------------------------------------------------------
(* SpecSize: pick_target_size as a function of its arguments *)

MaxOrig == 3
MaxReq == 3

\* original dimensions, zero included (the decoder is outside this code);
\* the two large ones have a product with 141906277 above 2^52
SizeOrigs == (0 .. MaxOrig) \cup {50, 100, 256 * 256, 42770002, 166003623}

\* --width / --height
SizeReqs ==
    {None} \cup {Some(n) : n \in (0 .. MaxReq) \cup {25, 30, 50, 256 * 256,
                                                     141906277}}

Modes == {"Auto", "Exact"}

SizeInit ==
    /\ impl \in Impls
    /\ overflow_checks = FALSE
    /\ \E w0 \in SizeOrigs, h0 \in SizeOrigs :
           img = [w |-> w0, h |-> h0, pat |-> "uniform", c |-> <<0, 0, 0, 255>>]
    /\ \E width \in SizeReqs, height \in SizeReqs, mode \in Modes :
           cfg = [width |-> width, height |-> height, mode |-> mode, block |-> None]
    /\ dpi = ToBig(DefaultDpi)
    /\ OrchestratorIdle
    /\ PixelateIdle
    /\ size_out = NoSize

CallPickTargetSize ==
    /\ ~size_out.called
    /\ size_out' = [called |-> TRUE]
                   @@ PickTargetSize(img.w, img.h, cfg.width, cfg.height, cfg.mode)
    /\ UNCHANGED <<inputs, orchestrator_vars, pixelate_vars>>

SizeNext == CallPickTargetSize

SpecSize == SizeInit /\ [][SizeNext]_vars

----------------------------------------------------------------------------
(* Properties of pick_target_size, under SpecSize *)

OrigPositive == img.w >= 1 /\ img.h >= 1

OnlyWidth == IsSome(cfg.width) /\ ~IsSome(cfg.height)
OnlyHeight == ~IsSome(cfg.width) /\ IsSome(cfg.height)
BothGiven == IsSome(cfg.width) /\ IsSome(cfg.height)
NeitherGiven == ~IsSome(cfg.width) /\ ~IsSome(cfg.height)

\* q is the integer nearest to p / d (halves upward): 2qd <= 2p + d < 2(q+1)d
IsNearest(q, p, d) ==
    LET twoP == BigAdd(BigMulLimb(p, 2, 0), d)
        twoD == BigNorm(BigMulLimb(d, 2, 0))
    IN  /\ BigLeq(BigMul(q, twoD), twoP)
        /\ BigLess(twoP, BigMul(BigAdd(q, ToBig(1)), twoD))

\* r = max(1, round(a * b / c))
IsAspect(r, a, b, c) ==
    LET p == BigMul(ToBig(a), ToBig(b))
    IN  \/ r # <<>> /\ IsNearest(r, p, ToBig(c))
        \/ r = ToBig(1) /\ IsNearest(<<>>, p, ToBig(c))

\* r = min(2^32 - 1, max(1, round(a * b / c)))
IsAspectSaturated(r, a, b, c) ==
    LET p == BigMul(ToBig(a), ToBig(b))
    IN  \/ BigLeq(r, U32Max) /\ IsAspect(r, a, b, c)
        \/ /\ r = U32Max
           /\ BigLeq(BigMul(U32Max, BigNorm(BigMulLimb(ToBig(c), 2, 0))),
                     BigAdd(BigMulLimb(p, 2, 0), ToBig(c)))

\* r is what the f64 evaluation can give: the saturated rounding of
\* a * b / c when a * b < 2^52 (every step is then exact or cannot cross a
\* half), and within 1 of it otherwise
IsAspectF64(r, a, b, c) ==
    /\ BigLeq(r, U32Max)
    /\ IF BigLess(BigMul(ToBig(a), ToBig(b)), BigPow2(52))
       THEN IsAspectSaturated(r, a, b, c)
       ELSE \/ IsAspectSaturated(r, a, b, c)
            \/ IsAspectSaturated(BigAdd(r, ToBig(1)), a, b, c)
            \/ r # <<>> /\ IsAspectSaturated(BigSub(r, ToBig(1)), a, b, c)

IsExample(w0, h0, width, height) ==
    img.w = w0 /\ img.h = h0 /\ cfg.width = width /\ cfg.height = height

SizeIs(w, h) == size_out.ok /\ size_out.w = ToBig(w) /\ size_out.h = ToBig(h)

SizeExamples ==
    /\ IsExample(100, 50, None, None) => SizeIs(64, 64)
    /\ IsExample(100, 50, Some(50), None) => SizeIs(50, 25)
    /\ IsExample(100, 50, None, Some(25)) => SizeIs(50, 25)
    /\ IsExample(100, 50, Some(30), Some(30)) => SizeIs(30, 30)

\* C6 as stated: for every original size with both dimensions >= 1,
\* pick_target_size returns (width, height) when both are given (in either
\* mode), (width, max(1, round(orig_h * width / orig_w))) when only width is
\* given, (max(1, round(orig_w * height / orig_h)), height) when only height
\* is given and (64, 64) when neither is, the four examples included.
C6_PriorityRules ==
    (size_out.called /\ OrigPositive) =>
        /\ size_out.ok
        /\ BothGiven => /\ size_out.w = ToBig(Unwrap(cfg.width))
                        /\ size_out.h = ToBig(Unwrap(cfg.height))
        /\ OnlyWidth => /\ size_out.w = ToBig(Unwrap(cfg.width))
                        /\ IsAspect(size_out.h, img.h, Unwrap(cfg.width), img.w)
        /\ OnlyHeight => /\ size_out.h = ToBig(Unwrap(cfg.height))
                         /\ IsAspect(size_out.w, img.w, Unwrap(cfg.height), img.h)
        /\ NeitherGiven => SizeIs(64, 64)
        /\ SizeExamples

\* C6 amended: the same rules, the computed dimension being the f64
\* evaluation of max(1, round(...)) converted to u32: it saturates at
\* 2^32 - 1, equals min(2^32 - 1, max(1, round(...))) whenever the product
\* in the numerator is below 2^52, and is within 1 of it for larger products.
C6_PriorityRulesF64 ==
    (size_out.called /\ OrigPositive) =>
        /\ size_out.ok
        /\ BothGiven => /\ size_out.w = ToBig(Unwrap(cfg.width))
                        /\ size_out.h = ToBig(Unwrap(cfg.height))
        /\ OnlyWidth =>
               /\ size_out.w = ToBig(Unwrap(cfg.width))
               /\ IsAspectF64(size_out.h, img.h, Unwrap(cfg.width), img.w)
        /\ OnlyHeight =>
               /\ size_out.h = ToBig(Unwrap(cfg.height))
               /\ IsAspectF64(size_out.w, img.w, Unwrap(cfg.height), img.h)
        /\ NeitherGiven => SizeIs(64, 64)
        /\ SizeExamples

\* a call with only the width given whose quotient 3 * 1 / 2 = 1.5 is a tie,
\* rounded away from zero
C6_Witness ==
    /\ size_out.called
    /\ IsExample(2, 3, Some(1), None)
    /\ SizeIs(1, 2)

\* C7 as stated: for every original size with both dimensions >= 1 and every
\* optional width and height (0 included) in either mode, pick_target_size
\* succeeds and both returned dimensions are >= 1.
C7_PositivePair ==
    (size_out.called /\ OrigPositive) =>
        /\ size_out.ok
        /\ size_out.w # <<>>
        /\ size_out.h # <<>>

\* C9 as stated: with a zero original width or height, pick_target_size
\* reports an error instead of returning a size.
C9_ZeroDimensionIsError ==
    (size_out.called /\ (img.w = 0 \/ img.h = 0)) => ~size_out.ok

----------------------------------------------------------------------------
(* Small inputs *)

MaxPixels == 6
MaxBlock == 3

Palette == {<<255, 255, 255, 255>>, <<7, 100, 201, 128>>}

\* every image of at most MaxPixels pixels, in both patterns
SmallImages ==
    {i \in [w : 1 .. MaxPixels, h : 1 .. MaxPixels, pat : {"uniform", "ramp"},
            c : Palette] : i.w * i.h <= MaxPixels}

SmallBlocks == {Some(n) : n \in 0 .. MaxBlock}

----------------------------------------------------------------------------
(* Spec: the orchestrator, run (cli) and process_image (app) *)

\* p / d rounded to the nearest integer, halves upward
RoundDiv(p, d) == (2 * p + d) \div (2 * d)

\* img.resize(w, h, filter) of the image crate keeps the aspect ratio: the
\* result is the largest size of the original ratio that fits in w x h,
\* each side rounded and at least 1
ResizeDimensions(w0, h0, nwidth, nheight) ==
    IF nwidth * h0 <= nheight * w0
    THEN <<Max(RoundDiv(w0 * nwidth, w0), 1), Max(RoundDiv(h0 * nwidth, w0), 1)>>
    ELSE <<Max(RoundDiv(w0 * nheight, h0), 1), Max(RoundDiv(h0 * nheight, h0), 1)>>

\* images of at least 16.8 million pixels: a single block of 4105 x 4105
\* white pixels sums to more than 2^32 - 1, one of 4104 x 4104 does not
LargeImages ==
    {[w |-> n, h |-> n, pat |-> "uniform", c |-> <<255, 255, 255, 255>>] :
        n \in {4104, 4105}}

LargeBlocks == {Some(5000)}

ResizeImages ==
    {[w |-> d[1], h |-> d[2], pat |-> "uniform", c |-> <<7, 100, 201, 128>>] :
        d \in {<<100, 50>>, <<3, 2>>, <<1, 1>>}}

ResizeReqs == {None} \cup {Some(n) : n \in {0, 25, 30, 50}}

\* the conversions the model runs: pixelations of small images, pixelations
\* of large images into one block, and resizes
Conversions ==
    {<<i, [width |-> None, height |-> None, mode |-> "Auto", block |-> b]>> :
        i \in SmallImages, b \in SmallBlocks}
    \cup
    {<<i, [width |-> None, height |-> None, mode |-> "Auto", block |-> b]>> :
        i \in LargeImages, b \in LargeBlocks}
    \cup
    {<<i, [width |-> wd, height |-> ht, mode |-> m, block |-> None]>> :
        i \in ResizeImages, wd \in ResizeReqs, ht \in ResizeReqs, m \in Modes}

Init ==
    /\ impl \in Impls
    /\ overflow_checks \in BOOLEAN
    /\ \E cv \in Conversions : img = cv[1] /\ cfg = cv[2]
    /\ dpi = ToBig(DefaultDpi)
    /\ pc = "start"
    /\ out = [kind |-> "none"]
    /\ summary = [final |-> <<>>, printed |-> FALSE]
    /\ file = "absent"
    /\ result = "none"
    /\ phys = NoPhys
    /\ PixelateIdle
    /\ size_out = NoSize

\* load_image(&input)?: the file is read and decoded, or the run ends
LoadImage ==
    /\ pc = "start"
    /\ \E ok \in BOOLEAN :
           IF ok THEN pc' = "loaded" /\ UNCHANGED result
           ELSE pc' = "failed" /\ result' = "load error"
    /\ UNCHANGED <<inputs, out, summary, file, phys, pixelate_vars, size_out>>

\* the pixelation path when block is set, the resize path otherwise
Transform ==
    /\ pc = "loaded"
    /\ IF IsSome(cfg.block)
       THEN \E rgba \in {Pixelate(impl, overflow_checks, img, Unwrap(cfg.block))} :
                IF rgba.kind = "panic"
                THEN /\ pc' = "panicked" /\ result' = "panic"
                     /\ UNCHANGED <<out, summary, size_out>>
                ELSE IF rgba.kind = "err"
                THEN /\ pc' = "failed" /\ result' = "output buffer error"
                     /\ UNCHANGED <<out, summary, size_out>>
                ELSE /\ pc' = "transformed"
                     /\ out' = rgba
                     /\ summary' = [summary EXCEPT !.final = <<rgba.w, rgba.h>>]
                     /\ UNCHANGED <<result, size_out>>
       ELSE \E size \in {PickTargetSize(img.w, img.h, cfg.width, cfg.height,
                                        cfg.mode)} :
            \E tw \in {BigToInt(size.w)}, th \in {BigToInt(size.h)} :
            \E dims \in {ResizeDimensions(img.w, img.h, tw, th)} :
                /\ pc' = "transformed"
                /\ size_out' = [called |-> TRUE] @@ size
                /\ out' = [kind |-> "image", w |-> dims[1], h |-> dims[2]]
                /\ summary' = [summary EXCEPT !.final = <<tw, th>>]
                /\ UNCHANGED result
    /\ UNCHANGED <<inputs, file, phys, pixelate_vars>>

\* write_png_with_dpi: File::create(out_path)
CreateFile ==
    /\ pc = "transformed"
    /\ \E ok \in BOOLEAN :
           IF ok THEN pc' = "created" /\ file' = "created" /\ UNCHANGED result
           ELSE pc' = "failed" /\ result' = "create error" /\ UNCHANGED file
    /\ UNCHANGED <<inputs, out, summary, phys, pixelate_vars, size_out>>

\* encoder.write_header(): rejects a zero width or height, and passes on
\* the errors of the writer
WriteHeader ==
    /\ pc = "created"
    /\ \E ok \in BOOLEAN :
           IF ok /\ out.w > 0 /\ out.h > 0
           THEN /\ pc' = "header" /\ file' = "header"
                /\ phys' = PixelDims(dpi)
                /\ UNCHANGED result
           ELSE /\ pc' = "failed" /\ result' = "header error"
                /\ UNCHANGED <<file, phys>>
    /\ UNCHANGED <<inputs, out, summary, pixelate_vars, size_out>>

\* writer.write_image_data(&rgba): the bytes go to the encoder and the
\* BufWriter; an error of a write that reaches the file is returned
WriteImageData ==
    /\ pc = "header"
    /\ \E ok \in BOOLEAN :
           IF ok THEN pc' = "written" /\ file' = "data" /\ UNCHANGED result
           ELSE pc' = "failed" /\ result' = "write error" /\ file' = "truncated"
    /\ UNCHANGED <<inputs, out, summary, phys, pixelate_vars, size_out>>

\* Ok(()) of write_png_with_dpi: neither finish() nor flush() is called, so
\* the end of the PNG stream and the buffered bytes are written when writer
\* is dropped, and an error there is discarded
DropWriter ==
    /\ pc = "written"
    /\ pc' = "closed"
    /\ \E ok \in BOOLEAN : file' = IF ok THEN "complete" ELSE "truncated"
    /\ UNCHANGED <<inputs, out, summary, result, phys, pixelate_vars, size_out>>

\* Ok(()); run (cli) prints the summary line first, and println! panics
\* when stdout cannot be written; process_image (app) prints nothing
Return ==
    /\ pc = "closed"
    /\ \E printed \in BOOLEAN :
           IF impl = "cli" /\ ~printed
           THEN pc' = "panicked" /\ result' = "panic" /\ UNCHANGED summary
           ELSE /\ pc' = "done"
                /\ result' = "ok"
                /\ summary' = [summary EXCEPT !.printed = (impl = "cli")]
    /\ UNCHANGED <<inputs, out, file, phys, pixelate_vars, size_out>>

Next ==
    \/ LoadImage
    \/ Transform
    \/ CreateFile
    \/ WriteHeader
    \/ WriteImageData
    \/ DropWriter
    \/ Return

Spec == Init /\ [][Next]_vars

----------------------------------------------------------------------------
(* SpecDpi: write_png_with_dpi called with bounded DPI values *)

MaxDpi == 40

\* --dpi: small values, the two of the unit test, a multiple of 127, the
\* two values around 2^32 * 0.0254, and u32::MAX
DpiInputs ==
    {ToBig(n) : n \in (0 .. MaxDpi) \cup {72, 127, 300, 109092169, 109092170}}
    \cup {U32Max}

\* the state of run after the pixelation of a 1 x 1 image
DpiInit ==
    /\ impl \in Impls
    /\ overflow_checks = FALSE
    /\ img = [w |-> 1, h |-> 1, pat |-> "uniform", c |-> <<7, 100, 201, 128>>]
    /\ cfg = [width |-> None, height |-> None, mode |-> "Auto", block |-> Some(1)]
    /\ dpi \in DpiInputs
    /\ pc = "transformed"
    /\ out = Pixelate(impl, overflow_checks, img, 1)
    /\ summary = [final |-> <<1, 1>>, printed |-> FALSE]
    /\ file = "absent"
    /\ result = "none"
    /\ phys = NoPhys
    /\ PixelateIdle
    /\ size_out = NoSize

DpiNext ==
    \/ CreateFile
    \/ WriteHeader
    \/ WriteImageData
    \/ DropWriter
    \/ Return

SpecDpi == DpiInit /\ [][DpiNext]_vars

----------------------------------------------------------------------------
(* SpecPixelate: the parallel stages of pixelate, one step per task *)

B == BlockSide(Unwrap(cfg.block))
BlocksX == Blocks(img.w, B)
BlocksY == Blocks(img.h, B)

Unset == <<>>

PixelateInit ==
    /\ impl \in Impls
    /\ overflow_checks \in BOOLEAN
    /\ img \in SmallImages
    /\ \E block \in SmallBlocks :
           cfg = [width |-> None, height |-> None, mode |-> "Auto", block |-> block]
    /\ dpi = ToBig(DefaultDpi)
    /\ OrchestratorIdle
    /\ stage = "averaging"
    /\ block_colors = [i \in 1 .. BlocksX * BlocksY |-> Unset]
    /\ pending = 0 .. (BlocksX * BlocksY - 1)
    /\ buffer = <<>>
    /\ writers = <<>>
    /\ row_x = <<>>
    /\ bad_access = FALSE
    /\ size_out = NoSize

\* results placed in the order the tasks finish
CollectSlotArrival(idx, arrived) == arrived + 1

\* collect() of an indexed parallel iterator: the result of item idx goes to
\* position idx whatever the order in which the tasks finish
CollectSlot(idx, arrived) == idx + 1

\* one task of the parallel map: the average of block idx
AverageTask(idx) ==
    /\ stage = "averaging"
    /\ idx \in pending
    /\ LET r == AverageBlock(overflow_checks, img, B, BlocksX, idx)
           arrived == Cardinality(DOMAIN block_colors) - Cardinality(pending)
       IN  IF r.panic
           THEN /\ stage' = "panicked"
                /\ bad_access' = (bad_access \/ r.oob)
                /\ UNCHANGED <<block_colors, pending>>
           ELSE /\ block_colors' =
                      [block_colors EXCEPT ![CollectSlot(idx, arrived)] = r.color]
                /\ pending' = pending \ {idx}
                /\ UNCHANGED <<stage, bad_access>>
    /\ UNCHANGED <<inputs, orchestrator_vars, buffer, writers, row_x, size_out>>

\* the map is collected; the output buffer is allocated, zeroed, and split
\* into tasks: one per pixel (cli, enumerate_pixels_mut().par_bridge()) or
\* one per chunk of w * 4 bytes (app, par_chunks_exact_mut)
StartReconstruct ==
    /\ stage = "averaging"
    /\ pending = {}
    /\ LET total == BufferLen(img.w, img.h)
           len   == IF impl = "cli" THEN img.w * img.h * 4
                    ELSE BigToInt(total.len)
           chunk == BigToInt(ChunkSize(img.w))
       IN  IF impl = "app"
              /\ (((total.ovf \/ ChunkOverflows(img.w)) /\ overflow_checks)
                  \/ chunk = 0)
           THEN /\ stage' = "panicked"
                /\ UNCHANGED <<pending, buffer, writers, row_x>>
           ELSE /\ stage' = "reconstruct"
                /\ buffer' = [i \in 1 .. len |-> 0]
                /\ writers' = [i \in 1 .. len |-> <<>>]
                /\ pending' = IF impl = "cli"
                              THEN (0 .. img.w - 1) \X (0 .. img.h - 1)
                              ELSE 0 .. (len \div chunk) - 1
                /\ row_x' = IF impl = "cli" THEN <<>>
                            ELSE [y \in 1 .. (len \div chunk) |-> 0]
    /\ UNCHANGED <<inputs, orchestrator_vars, block_colors, bad_access, size_out>>

\* the four bytes of pixel (x, y) set to color by task
WriteColor(x, y, color, task) ==
    LET at == WriteOffset(x, y, img.w)
    IN  /\ buffer' = [i \in DOMAIN buffer |->
                        IF i - 1 \in at .. at + 3 THEN color[i - at] ELSE buffer[i]]
        /\ writers' = [i \in DOMAIN writers |->
                        IF i - 1 \in at .. at + 3 THEN Append(writers[i], task)
                        ELSE writers[i]]

\* cli: the task of output pixel (x, y)
WritePixel(x, y) ==
    /\ impl = "cli"
    /\ stage = "reconstruct"
    /\ <<x, y>> \in pending
    /\ LET block_idx == BlockIndex(x, y, B, BlocksX)
       IN  IF block_idx >= Len(block_colors)
               \/ WriteOffset(x, y, img.w) + 3 >= Len(buffer)
           THEN /\ stage' = "panicked"
                /\ bad_access' = TRUE
                /\ UNCHANGED <<pending, buffer, writers>>
           ELSE /\ WriteColor(x, y, block_colors[block_idx + 1], <<x, y>>)
                /\ pending' = pending \ {<<x, y>>}
                /\ UNCHANGED <<stage, bad_access>>
    /\ UNCHANGED <<inputs, orchestrator_vars, block_colors, row_x, size_out>>

\* app: one iteration of `for x in 0..w` in the task of row y
RowStep(y) ==
    /\ impl = "app"
    /\ stage = "reconstruct"
    /\ y \in pending
    /\ LET x == row_x[y + 1]
           block_idx == BlockIndex(x, y, B, BlocksX)
       IN  IF block_idx >= Len(block_colors)
               \/ x * 4 + 3 >= BigToInt(ChunkSize(img.w))
               \/ WriteOffset(x, y, img.w) + 3 >= Len(buffer)
           THEN /\ stage' = "panicked"
                /\ bad_access' = TRUE
                /\ UNCHANGED <<pending, buffer, writers, row_x>>
           ELSE /\ WriteColor(x, y, block_colors[block_idx + 1], y)
                /\ row_x' = [row_x EXCEPT ![y + 1] = x + 1]
                /\ pending' = IF x + 1 < img.w THEN pending ELSE pending \ {y}
                /\ UNCHANGED <<stage, bad_access>>
    /\ UNCHANGED <<inputs, orchestrator_vars, block_colors, size_out>>

\* every task has finished; app: RgbaImage::from_raw(w, h, buffer)
FinishPixelate ==
    /\ stage = "reconstruct"
    /\ pending = {}
    /\ stage' = IF impl = "app" /\ Len(buffer) < img.w * img.h * 4
                THEN "err" ELSE "done"
    /\ UNCHANGED <<inputs, orchestrator_vars, block_colors, pending, buffer,
                   writers, row_x, bad_access, size_out>>

PixelateNext ==
    \/ \E idx \in pending : AverageTask(idx)
    \/ StartReconstruct
    \/ \E x \in 0 .. img.w - 1, y \in 0 .. img.h - 1 : WritePixel(x, y)
    \/ \E y \in 0 .. img.h - 1 : RowStep(y)
    \/ FinishPixelate

SpecPixelate == PixelateInit /\ [][PixelateNext]_vars

----------------------------------------------------------------------------
(* What the spec asks of a block: the truncated mean, stated over the set *)
(* of source pixels that share the block of (x, y)                        *)

\* the coordinates in 0 .. n-1 that share the block of coordinate v
SameBlock(n, b, v) == {u \in 0 .. n - 1 : u \div b = v \div b}

RECURSIVE ChannelSum(_, _, _)
ChannelSum(image, ch, cells) ==
    IF cells = {} THEN 0
    ELSE LET e == CHOOSE e \in cells : TRUE
         IN  Pixel(image, e[1], e[2])[ch] + ChannelSum(image, ch, cells \ {e})

\* S: the sum of channel ch over the block of (x, y), as a Big number
BlockChannelSum(image, b, ch, x, y) ==
    LET xs == SameBlock(image.w, b, x)
        ys == SameBlock(image.h, b, y)
    IN  IF image.pat = "uniform"
        THEN BigMul(BigMul(ToBig(Cardinality(xs)), ToBig(Cardinality(ys))),
                    ToBig(image.c[ch]))
        ELSE ToBig(ChannelSum(image, ch, xs \X ys))

\* n: the number of source pixels in the block of (x, y)
BlockCount(image, b, x, y) ==
    BigMul(ToBig(Cardinality(SameBlock(image.w, b, x))),
           ToBig(Cardinality(SameBlock(image.h, b, y))))

\* v = floor(S / n):  n * v <= S < n * (v + 1)
IsFloorQuotient(v, S, n) ==
    /\ BigLeq(BigMul(n, ToBig(v)), S)
    /\ BigLess(S, BigMul(n, ToBig(v + 1)))

\* color is the truncated mean, channel by channel, of the block of (x, y)
IsBlockMean(color, image, b, x, y) ==
    /\ Len(color) = 4
    /\ \A ch \in 1 .. 4 :
           IsFloorQuotient(color[ch], BlockChannelSum(image, b, ch, x, y),
                           BlockCount(image, b, x, y))

\* the least k with k * b >= n
CeilDiv(n, b) == CHOOSE k \in 0 .. n : k * b >= n /\ (k = 0 \/ (k - 1) * b < n)

----------------------------------------------------------------------------
(* Properties of the parallel stages, under SpecPixelate *)

ReconstructionOver ==
    \/ stage \in {"done", "err"}
    \/ stage = "reconstruct" /\ pending = {}

\* C2: in the reconstruction stage, under every interleaving of the tasks
\* (one per row in app, one per pixel in cli), no output byte is written by
\* two tasks, and once the stage is over the buffer holds w * h pixels and
\* each of its bytes has been written exactly once.
C2_WritesDisjointAndComplete ==
    /\ \A i \in DOMAIN writers :
           \A j, k \in DOMAIN writers[i] : writers[i][j] = writers[i][k]
    /\ \A i \in DOMAIN writers : Len(writers[i]) <= 1
    /\ ReconstructionOver =>
           /\ Len(buffer) = img.w * img.h * 4
           /\ \A i \in 1 .. img.w * img.h * 4 : Len(writers[i]) = 1

\* the rows of a 3 x 2 image written by the two row tasks of app, all done
C2_Witness ==
    /\ stage = "done"
    /\ impl = "app"
    /\ img.w = 3 /\ img.h = 2
    /\ \A i \in DOMAIN writers : Len(writers[i]) = 1
    /\ writers[1] # writers[Len(writers)]

\* C3: the outcome of pixelate is a function of the image and the block
\* size alone.  Whatever the order in which the tasks ran, every collected
\* entry block_y * blocks_x + block_x of the table is the mean of block
\* (block_x, block_y), and a finished run has produced exactly the table and
\* the bytes that Pixelate gives for these arguments (or its panic or error).
C3_ScheduleIndependent ==
    LET expected == Pixelate(impl, overflow_checks, img, Unwrap(cfg.block))
    IN  /\ Len(block_colors) = BlocksX * BlocksY
        /\ \A bx \in 0 .. BlocksX - 1, by \in 0 .. BlocksY - 1 :
               LET c == block_colors[by * BlocksX + bx + 1]
               IN  c # Unset => IsBlockMean(c, img, B, bx * B, by * B)
        /\ stage \in {"reconstruct", "done", "err"} =>
               /\ expected.kind # "panic"
               /\ expected.kind = "image" => block_colors = expected.colors
        /\ stage = "panicked" => expected.kind = "panic"
        /\ stage = "err" => expected.kind = "err"
        /\ stage = "done" =>
               /\ expected.kind = "image"
               /\ \A x \in 0 .. img.w - 1, y \in 0 .. img.h - 1 :
                      \A k \in 1 .. 4 :
                          buffer[WriteOffset(x, y, img.w) + k]
                              = OutPixel(expected, x, y)[k]

\* a finished run on a 2 x 2 ramp cut into four blocks of distinct colours
C3_Witness ==
    /\ stage = "done"
    /\ img.w = 2 /\ img.h = 2 /\ img.pat = "ramp"
    /\ B = 1
    /\ Cardinality({block_colors[i] : i \in DOMAIN block_colors}) = 4

\* C5: blocks_x = ceil(w / b) and blocks_y = ceil(h / b); no source
\* coordinate read while averaging lies outside the image and no index used
\* in reconstruction is outside the table (bad_access records either); the
\* last block column is w - (blocks_x - 1) * b >= 1 wide; every index
\* block_y * blocks_x + block_x is below blocks_x * blocks_y; for w = 5,
\* b = 2 this gives blocks_x = 3 and a last width of 1.
C5_GridInBounds ==
    /\ BlocksX = CeilDiv(img.w, B)
    /\ BlocksY = CeilDiv(img.h, B)
    /\ ~bad_access
    /\ img.w - (BlocksX - 1) * B >= 1
    /\ img.h - (BlocksY - 1) * B >= 1
    /\ Len(block_colors) = BlocksX * BlocksY
    /\ \A x \in 0 .. img.w - 1, y \in 0 .. img.h - 1 :
           BlockIndex(x, y, B, BlocksX) < Len(block_colors)
    /\ \A idx \in 0 .. BlocksX * BlocksY - 1 :
           LET x_start == (idx % BlocksX) * B
               y_start == (idx \div BlocksX) * B
           IN  /\ x_start < BlockEnd(x_start, B, img.w)
               /\ y_start < BlockEnd(y_start, B, img.h)
    /\ Blocks(5, 2) = 3 /\ 5 - (Blocks(5, 2) - 1) * 2 = 1

\* a finished run whose width 3 is not a multiple of the block side 2
C5_Witness ==
    /\ stage = "done"
    /\ img.w = 3 /\ B = 2
    /\ BlocksX = 2
    /\ img.w - (BlocksX - 1) * B = 1

----------------------------------------------------------------------------
(* Properties of the orchestrator, under Spec *)

\* the transform step is over and the image had been loaded
Transformed ==
    pc \in {"transformed", "created", "header", "written", "closed", "done"}

PixelatePath == IsSome(cfg.block)

\* the panic came from pixelate: no buffer was returned
PixelatePanicked == pc = "panicked" /\ out.kind = "none"

PixelateReturned ==
    /\ PixelatePath
    /\ \/ Transformed
       \/ pc = "panicked"
       \/ pc = "failed" /\ result # "load error"

\* the pixels a property looks at: all of a small image, the corners of a
\* large one
Probes(image) ==
    IF image.w * image.h <= LoopMax
    THEN (0 .. image.w - 1) \X (0 .. image.h - 1)
    ELSE {0, image.w - 1} \X {0, image.h - 1}

\* C1: for every image with w >= 1 and h >= 1 and every block size, in cli
\* and in app, pixelate returns a buffer of exactly w x h pixels and each
\* channel of each pixel (x, y) is floor(S / n), S the sum of the channel over
\* the source pixels of the block of (x, y) and n their number, b being
\* max(block, 1).
C1_PixelateIsBlockMean ==
    (PixelateReturned /\ img.w >= 1 /\ img.h >= 1) =>
        /\ out.kind = "image"
        /\ out.w = img.w /\ out.h = img.h
        /\ \A p \in Probes(img) :
               IsBlockMean(OutPixel(out, p[1], p[2]), img,
                           BlockSide(Unwrap(cfg.block)), p[1], p[2])

\* C4: for a uniform image of colour c, of any size, and any block size
\* >= 1, the output of pixelate equals the input: every output pixel is c.
C4_UniformRoundTrip ==
    (PixelateReturned /\ img.pat = "uniform" /\ Unwrap(cfg.block) >= 1) =>
        /\ out.kind = "image"
        /\ out.w = img.w /\ out.h = img.h
        /\ \A p \in Probes(img) : OutPixel(out, p[1], p[2]) = img.c

\* C8: on the resize path the buffer handed to the PNG writer has exactly
\* the size (tw, th) that pick_target_size returned, so exactly
\* width x height when both are given, and the size in the summary line of
\* the cli is the size of the written buffer.
C8_BufferHasTargetSize ==
    (~PixelatePath /\ Transformed) =>
        /\ size_out.called /\ size_out.ok
        /\ ToBig(out.w) = size_out.w /\ ToBig(out.h) = size_out.h
        /\ BothGiven =>
               out.w = Unwrap(cfg.width) /\ out.h = Unwrap(cfg.height)
        /\ summary.printed => summary.final = <<out.w, out.h>>

\* C10: the output file is created only once a valid header can be written:
\* when a run fails at the load step or at the header step no file exists at
\* the output path; a failure ends the run at its step, without retry, and
\* is the error returned to the caller.
C10_NoFileOnEarlyFailure ==
    /\ []((pc = "failed" /\ result \in {"load error", "header error"}) =>
              file = "absent")
    /\ [](pc = "failed" => result \in {"load error", "output buffer error",
                                       "create error", "header error",
                                       "write error"})
    /\ [][pc = "failed" => pc' = "failed"]_vars

\* the exact channel sums and the pixel count of the block of p fit in u32
BlockFitsU32(image, b, p) ==
    /\ BigLeq(BlockCount(image, b, p[1], p[2]), U32Max)
    /\ \A ch \in 1 .. 4 :
           BigLeq(BlockChannelSum(image, b, ch, p[1], p[2]), U32Max)

\* C12: for every image whose width and height fit in u32 and every block
\* size, the u32 sums r_sum, g_sum, b_sum, a_sum and the counter of a block
\* never exceed 2^32 - 1 while the block is averaged (no overflow panic, no
\* wrapped sum), so the quotient is the true truncated mean, also when a
\* block size >= max(width, height) makes the whole image one block; and in
\* app the u32 product w * h * 4 does not overflow.
C12_ArithmeticInRange ==
    PixelateReturned =>
        LET b == BlockSide(Unwrap(cfg.block))
        IN  /\ ~PixelatePanicked
            /\ \A p \in Probes(img) : BlockFitsU32(img, b, p)
            /\ (b >= img.w /\ b >= img.h) =>
                   /\ out.kind = "image"
                   /\ Len(out.colors) = 1
                   /\ IsBlockMean(out.colors[1], img, b, 0, 0)
            /\ impl = "app" => ~BufferLen(img.w, img.h).ovf

----------------------------------------------------------------------------
(* Properties of dpi_to_ppm and the pixel density, under SpecDpi *)

HeaderWritten == phys.unit # "none"

\* dpi / 0.0254 = dpi * 5000 / 127
InchNum == BigMul(dpi, ToBig(5000))
InchDen == ToBig(127)

UnitTestValues ==
    /\ DpiToPpm(ToBig(300)) = ToBig(11811)
    /\ DpiToPpm(ToBig(72)) = ToBig(2835)

\* C11: for every u32 dpi, dpi_to_ppm(dpi) is the integer nearest to
\* dpi / 0.0254, that is the rounding of dpi * 5000 / 127, so
\* dpi_to_ppm(300) = 11811 and dpi_to_ppm(72) = 2835; the PNG writer sets the
\* horizontal and the vertical density to this value, with unit meter.
C11_PpmIsNearest ==
    /\ UnitTestValues
    /\ HeaderWritten =>
           /\ phys.unit = "Meter"
           /\ phys.xppu = phys.yppu
           /\ phys.xppu = DpiToPpm(dpi)
           /\ IsNearest(phys.xppu, InchNum, InchDen)

\* C11, with the range of u32: dpi_to_ppm(dpi) is the integer nearest to
\* dpi * 5000 / 127 when that integer is at most 2^32 - 1, and 2^32 - 1 when
\* it is larger (from dpi = 109092170 on); the two unit-test values hold, and
\* the writer sets both densities to this value, with unit meter.
C11_PpmIsNearestSaturating ==
    /\ UnitTestValues
    /\ HeaderWritten =>
           /\ phys.unit = "Meter"
           /\ phys.xppu = phys.yppu
           /\ phys.xppu = DpiToPpm(dpi)
           /\ BigLeq(phys.xppu, U32Max)
           /\ \/ IsNearest(phys.xppu, InchNum, InchDen)
              \/ /\ phys.xppu = U32Max
                 /\ BigLeq(BigMul(U32Max, ToBig(254)),
                           BigAdd(BigMulLimb(InchNum, 2, 0), InchDen))
           /\ BigLess(dpi, ToBig(109092170)) =>
                  IsNearest(phys.xppu, InchNum, InchDen)

\* a file written with --dpi 72: 72 / 0.0254 = 2834.6..., rounded up
C11_Witness ==
    /\ file = "complete"
    /\ dpi = ToBig(72)
    /\ phys = [xppu |-> ToBig(2835), yppu |-> ToBig(2835), unit |-> "Meter"]

=============================================================================
